---- MODULE Spec2Model ----
(***************************************************************************)
(* Charging-session lifecycle of IdeaAmp-API: the active-session registry, *)
(* the pairing handler that initializes and starts a session, the          *)
(* telemetry loop of a live connection, the stop endpoint, settlement and  *)
(* the staff endpoints that change port and station status.                *)
(*                                                                         *)
(* Money and energy are integers (whole currency units, whole kWh): every  *)
(* tick adds exactly 1 kWh and prices are whole numbers, so the float      *)
(* arithmetic of the source is exact on the modelled values.               *)
(***************************************************************************)
EXTENDS Integers, Sequences, FiniteSets, TLC

\* ---------------------------------------------------------------- bounds
NumUsers == 2
NumPorts == 1
NumConns == 2
NumLoopConns == 1
MaxSessions == 2
MaxTarget == 2
MaxFaults == 1
MaxUses == 2
MaxAmount == 4
NumAppliers == 2
MaxEnergy == 3

\* ------------------------------------------------------- fixed test data
PricePerKwh == 2
DiscountValue == 50
BatteryCapacity == 3
RichBalance == 4
PoorBalance == 1

Users == 1..NumUsers
Ports == 1..NumPorts
PortInputs == 1..(NumPorts + 1)
Conns == 1..NumConns
LoopConns == 1..NumLoopConns
Appliers == 1..NumAppliers
SessionIds == 1..MaxSessions
TheStation == 1
TheCar == 1
CarInputs == {TheCar, TheCar + 1}

\* discount codes: PlainCode has no expiry, DatedCode expires in the future,
\* ExpiredCode expired in the past; all are bounded by MaxUses.  UnknownCode
\* is in no row of the discounts table.
NoCode == 0
PlainCode == 1
DatedCode == 2
UnknownCode == 3
ExpiredCode == 4
DiscountCodes == {PlainCode, DatedCode, ExpiredCode}
CodeInputs == {NoCode, PlainCode, DatedCode, UnknownCode}

\* the clock reading of the run and the expiry_on column of each discount row
Now == 5
PastExpiry == 1
FutureExpiry == 9

PortStatuses == {"Available", "InUse", "Faulty", "Maintenance"}
StationStatuses == {"active", "inactive", "maintenance"}

NoSession == [absent |-> TRUE]
NoKey == 0
Null == 0

\* Discount.expiry_on of the row of a code
ExpiryOn(code) ==
    IF code = DatedCode THEN FutureExpiry
    ELSE IF code = ExpiredCode THEN PastExpiry
    ELSE Null

\* the amounts sent to POST /discounts/apply: those whose discounted value is
\* a whole number, and 0, which the endpoint refuses
Amounts == {a \in 0..MaxAmount : (a * (100 - DiscountValue)) % 100 = 0}

VARIABLES
    portStatus,       \* ports cache/table: port id -> status
    stationStatus,    \* stations cache/table: status of the station
    stationExists,    \* whether the station row still exists
    rows,             \* charging_sessions table: sequence of rows, id = index
    active_sessions,  \* ChargingSessionsService.active_sessions
    balance,          \* users.balance
    points,           \* users.points
    transactions,     \* transactions table (Payment rows)
    usage_count,      \* discounts.usage_count, per discount code
    exhausted,        \* history: codes whose usage count has equalled max uses
    apply,            \* the POST /discounts/apply requests in flight
    qr,               \* pairing tokens: Service._global_cache, the /ws/qr
                      \* handlers and the POST /station/scan-qr requests
    audit,            \* audit_logs table and the time in units of 12 hours
    user_id,          \* the module-level global of routes/websockets/charging.py
    conn,             \* one record per live /ws/charging connection handler
    stop,             \* the /charging/stop request in flight
    clock,            \* logical time used for end_on
    faults,           \* number of storage failures injected so far
    debits,           \* history: balance debits made for each session
    discountUses,     \* history: successful discount applications per session
    payTx,            \* history: Payment transactions written for each session
    endWrites,        \* history: times end_on was written for each session
    settled,          \* history: reasons of the Settle calls that returned True
    stopIssued,       \* history: the stop endpoint was invoked for the session
    lastOp            \* the pairing-handler call that produced this state, if any

vars == <<portStatus, stationStatus, stationExists, rows, active_sessions,
          balance, points, transactions, usage_count, exhausted, apply, qr,
          audit, user_id, conn, stop, clock, faults, debits, discountUses, payTx, endWrites,
          settled, stopIssued, lastOp>>

\* ------------------------------------------------------------ collaborators

\* PortService.update_status: writes the status of an existing port.
UpdatePortStatus(ps, p, st) == [ps EXCEPT ![p] = st]

\* ChargingSessionsService.get_session_status
GetSessionStatus(s) ==
    IF s \in SessionIds /\ active_sessions[s] # NoSession
    THEN active_sessions[s] ELSE NoSession

\* the user a registry entry belongs to (0, no user, for a missing entry)
OwnerOf(sess) == IF sess = NoSession THEN 0 ELSE sess.user_id

\* the row create_session inserts: only user and port are set
NewRow(u, p) ==
    [user_id |-> u, port_id |-> p, car_id |-> Null, end_on |-> Null,
     energy_consumed |-> Null, cost |-> Null]

\* the registry entry initialize_charging stores
NewActive(u, p) ==
    [user_id |-> u, port_id |-> p, station_id |-> TheStation,
     price_per_kwh |-> PricePerKwh, charging_status |-> "initialized",
     current_kwh |-> 0, current_cost |-> 0, car_id |-> NoKey,
     target_kwh |-> NoKey, discount_code |-> NoCode, last_points_kwh |-> 0]

CarExists(c) == c = TheCar

\* a storage operation may fail while the failure budget lasts
FaultChoices == IF faults < MaxFaults THEN {FALSE, TRUE} ELSE {FALSE}

\* what the fetch from the meter gave: MeterDown when the request failed,
\* else the kwh of the response
MaxDelta == 2
MeterDown == 0 - 1
MeterReadings == {MeterDown} \cup 1..MaxDelta

\* the fixed increment of the loop
NominalDelta == 1

\* the energy the loop adds in a tick whose fetch gave m: energy_delta is
\* assigned the nominal increment after the try block, whatever was fetched
EnergyDelta(m) == NominalDelta

\* a telemetry handler before it is entered; meter is what its last fetch gave
IdleConn ==
    [pc |-> "idle", uid |-> 0, sid |-> 0, owner |-> 0, connected |-> FALSE,
     current_kwh |-> 0, current_cost |-> 0, final_cost |-> 0,
     target |-> 0, reason |-> "none", cont |-> "none", midCharge |-> FALSE,
     events |-> {}, meter |-> MeterDown]

\* a request thread of POST /discounts/apply; loaded is the usage_count of
\* the row as the thread's query returned it, late tells that the request
\* arrived after the code's usage count had equalled max uses
\* the audit log: time runs in units of 12 hours, so the trailing 24 hours are
\* the last Window units; MaxFailures caps the station_failure rows
MaxTime == 3
MaxFailures == 4
Window == 2
CriticalAfter == 3

\* the audit_logs table before anything is logged
NoLogs == [logs |-> <<>>, now |-> 0]

\* pairing connections (/ws/qr) and scan requests (POST /station/scan-qr); the
\* token a pairing connection generates is named after the connection
NumPairConns == 2
NumScanners == 2
PairConns == 1..NumPairConns
Scanners == 1..NumScanners
Tokens == PairConns
StationInputs == {TheStation, TheStation + 1}

\* the station contexts a scan request may carry (they differ in ip_address);
\* NoContext: the entry has no station_data
NumContexts == 2
Contexts == 1..NumContexts
NoContext == 0

\* no entry under the token's cache key
NoEntry == [absent |-> TRUE]

\* the token store and the threads that use it, before any pairing:
\* cache is Service._global_cache under the qr_token keys, expired the tokens
\* whose expiration time has passed, ws the /ws/qr handlers, scan the
\* scan_qr requests (user is the user_id of the entry a request has loaded,
\* ctx the station context it carries),
\* discarded (history) the tokens the handlers have popped
IdleQr ==
    [cache |-> [t \in Tokens |-> NoEntry],
     expired |-> {},
     ws |-> [c \in PairConns |->
                [pc |-> "idle", connected |-> FALSE, user |-> 0, events |-> {}]],
     scan |-> [k \in Scanners |->
                [pc |-> "idle", token |-> 0, user |-> 0, ctx |-> NoContext,
                 result |-> "none"]],
     discarded |-> {}]

IdleApply ==
    [pc |-> "idle", amount |-> 0, code |-> NoCode, loaded |-> 0, late |-> FALSE]

\* the applications counted for session s after apply_discount answered st
\* for code dc on its behalf
CountUse(du, s, st, dc) ==
    IF dc # NoCode /\ st = "SUCCESS" THEN [du EXCEPT ![s] = @ + 1] ELSE du

\* the codes whose usage count has equalled max uses, after the counters
\* became uc
Exhausted(ex, uc) == ex \cup {d \in DiscountCodes : uc[d] >= MaxUses}

IdleStop ==
    [pc |-> "idle", sid |-> 0, final_energy |-> 0, final_cost |-> 0]

\* no estimated cost was computed
NoEstimate == 0 - 1

NoOp ==
    [op |-> "none", sid |-> 0, ok |-> TRUE, msg |-> "none", port |-> 0,
     user |-> 0, target |-> 0, code |-> NoCode, estimated |-> NoEstimate,
     portBefore |-> "none", rowsBefore |-> 0, usesBefore |-> 0]

\* the record of a pairing-handler call: its arguments, its result, the
\* estimated cost it computed and what it found before it ran
Call(op, sid, ok, msg, p, u, target, dc, est) ==
    [op |-> op, sid |-> sid, ok |-> ok, msg |-> msg, port |-> p, user |-> u,
     target |-> target, code |-> dc, estimated |-> est,
     portBefore |-> IF p \in Ports THEN portStatus[p] ELSE "none",
     rowsBefore |-> Len(rows),
     usesBefore |-> IF dc \in DiscountCodes THEN usage_count[dc] ELSE 0]

\* users.balance before any charging: user 1 can pay, the others cannot
InitialBalance(u) == IF u = 1 THEN RichBalance ELSE PoorBalance

InitState(bal) ==
    /\ portStatus = [p \in Ports |-> "Available"]
    /\ stationStatus = "active"
    /\ stationExists = TRUE
    /\ rows = <<>>
    /\ active_sessions = [s \in SessionIds |-> NoSession]
    /\ balance = bal
    /\ points = [u \in Users |-> 0]
    /\ transactions = <<>>
    /\ usage_count = [d \in DiscountCodes |-> 0]
    /\ exhausted = {}
    /\ apply = [r \in Appliers |-> IdleApply]
    /\ qr = IdleQr
    /\ audit = NoLogs
    /\ user_id = 0
    /\ conn = [c \in Conns |-> IdleConn]
    /\ stop = IdleStop
    /\ clock = 0
    /\ faults = 0
    /\ debits = [s \in SessionIds |-> 0]
    /\ discountUses = [s \in SessionIds |-> 0]
    /\ payTx = [s \in SessionIds |-> 0]
    /\ endWrites = [s \in SessionIds |-> 0]
    /\ settled = [s \in SessionIds |-> <<>>]
    /\ stopIssued = [s \in SessionIds |-> FALSE]
    /\ lastOp = NoOp

\* the state after construction, with the users' balances of the test data
Init == InitState([u \in Users |-> InitialBalance(u)])

\* long sessions: targets up to and beyond the car's battery capacity, for
\* users who can pay for them
MaxLoopTarget == 4
LoopBalance == 8
InitLoop == InitState([u \in Users |-> LoopBalance])

\* ------------------------------------------------- Session Registry: Initialize

InitFaultKinds == {"none", "create", "port_update"}

\* The state initialize_charging leaves behind, and whether it returned a
\* session (ok) or None.  f names the storage call that fails, if any.
InitializeOutcome(u, p, f) ==
    LET sid == Len(rows) + 1
        rowsC == Append(rows, NewRow(u, p))
        portsC == UpdatePortStatus(portStatus, p, "InUse")
    IN  IF p \notin Ports
        THEN \* port is None: port.station_id raises before any effect
             [ok |-> FALSE, msg |-> "port_missing", sid |-> 0, rows |-> rows,
              ports |-> portStatus, active |-> active_sessions]
        ELSE IF f = "create"
        THEN \* create_session rolled back and returned None
             [ok |-> FALSE, msg |-> "persist_failed", sid |-> 0, rows |-> rows,
              ports |-> portStatus, active |-> active_sessions]
        ELSE IF f = "port_update"
        THEN \* update_status raised after the row was committed
             [ok |-> FALSE, msg |-> "port_update_failed", sid |-> sid,
              rows |-> rowsC, ports |-> portStatus, active |-> active_sessions]
        ELSE IF ~stationExists
        THEN \* station is None: station.id raises after both effects
             [ok |-> FALSE, msg |-> "station_missing", sid |-> sid,
              rows |-> rowsC, ports |-> portsC, active |-> active_sessions]
        ELSE [ok |-> TRUE, msg |-> "ok", sid |-> sid, rows |-> rowsC,
              ports |-> portsC,
              active |-> [active_sessions EXCEPT ![sid] = NewActive(u, p)]]

\* ------------------------------------------------- Billing & Discount Engine

\* DiscountService.apply_discount(amount, code) against the usage counters uc:
\* the returned amount and status, and the counters afterwards.  A row whose
\* expiry_on is set makes the comparison of a datetime with an integer raise,
\* whatever the clock reads.
ApplyDiscount(uc, amount, code) ==
    IF code \notin DiscountCodes
    THEN [amount |-> amount, status |-> "NOT_FOUND", usage |-> uc]
    ELSE IF ExpiryOn(code) # Null
    THEN [amount |-> amount, status |-> "raised", usage |-> uc]
    ELSE IF uc[code] >= MaxUses
    THEN [amount |-> amount, status |-> "MAX_USES_REACHED", usage |-> uc]
    ELSE [amount |-> (amount * (100 - DiscountValue)) \div 100,
          status |-> "SUCCESS",
          usage |-> [uc EXCEPT ![code] = @ + 1]]

\* POST /discounts/apply, first half: amounts not above 0 are refused;
\* otherwise the thread's query loads the row of the code, and an unknown code
\* is answered NOT_FOUND at once
ApplyBegin(r, amount, code) ==
    /\ apply[r].pc = "idle"
    /\ IF amount <= 0
       THEN /\ lastOp' = Call("apply_discount", 0, FALSE, "invalid_amount", 0, 0,
                              amount, code, amount)
            /\ UNCHANGED apply
       ELSE IF code \notin DiscountCodes
       THEN /\ lastOp' = Call("apply_discount", 0, FALSE,
                              ApplyDiscount(usage_count, amount, code).status,
                              0, 0, amount, code, amount)
            /\ UNCHANGED apply
       ELSE /\ lastOp' = NoOp
            /\ apply' = [apply EXCEPT ![r] =
                  [pc |-> "loaded", amount |-> amount, code |-> code,
                   loaded |-> usage_count[code], late |-> code \in exhausted]]
    /\ UNCHANGED <<qr, audit, portStatus, stationStatus, stationExists, rows, active_sessions,
                   balance, points, transactions, usage_count, exhausted, user_id,
                   conn, stop, clock, faults, debits, discountUses, payTx, endWrites, settled,
                   stopIssued>>

\* second half: the expiry and max-uses tests on the loaded row, then the
\* loaded usage_count plus one is written and committed; an exception is
\* answered with status 500
ApplyFinish(r) ==
    LET a == apply[r]
        res == ApplyDiscount([usage_count EXCEPT ![a.code] = a.loaded],
                             a.amount, a.code)
    IN
    /\ a.pc = "loaded"
    /\ usage_count' = IF res.status = "SUCCESS" THEN res.usage ELSE usage_count
    /\ exhausted' = Exhausted(exhausted, usage_count')
    /\ apply' = [apply EXCEPT ![r] = IdleApply]
    /\ lastOp' = [Call("apply_discount", 0, res.status = "SUCCESS", res.status,
                       0, 0, a.amount, a.code, res.amount)
                    EXCEPT !.usesBefore = a.loaded]
    /\ UNCHANGED <<qr, audit, portStatus, stationStatus, stationExists, rows, active_sessions,
                   balance, points, transactions, user_id, conn, stop, clock,
                   faults, debits, discountUses, payTx, endWrites, settled, stopIssued>>

ApplyDiscountEndpoint ==
    \/ \E r \in Appliers, amount \in Amounts, code \in DiscountCodes \cup {UnknownCode} :
           ApplyBegin(r, amount, code)
    \/ \E r \in Appliers : ApplyFinish(r)

\* ---------------------------------------------- Session Registry: StartCharging

\* the price preview of start_charging: target_kwh * price_per_kwh, then the
\* discount when a code was given
Preview(sess, target, dc) ==
    IF dc = NoCode
    THEN [amount |-> target * sess.price_per_kwh, status |-> "SUCCESS",
          usage |-> usage_count]
    ELSE ApplyDiscount(usage_count, target * sess.price_per_kwh, dc)

\* the verdict of start_charging's validation, in the order of the source
StartVerdict(sess, u, target, car, dc) ==
    LET pv == Preview(sess, target, dc) IN
    IF OwnerOf(sess) # u THEN "no_session"
    ELSE IF pv.status = "raised" THEN "system_error"
    ELSE IF pv.status # "SUCCESS" THEN "discount_error"
    ELSE IF balance[u] < pv.amount THEN "insufficient_balance"
    ELSE IF ~CarExists(car) THEN "car_not_found"
    ELSE "ok"

\* the port table after start_charging rejected the request
StartRejectPorts(ps, sess, verdict) ==
    IF verdict \in {"no_session", "system_error"} THEN ps
    ELSE UpdatePortStatus(ps, sess.port_id, "Available")

\* the registry entry after start_charging accepted the request
StartedActive(sess, target, car, dc) ==
    [sess EXCEPT !.car_id = car, !.target_kwh = target,
                 !.charging_status = "charging", !.discount_code = dc]

\* ----------------------------------------------------------- pairing handler
\* init_charging_process on a start_charging message: Initialize, and when it
\* returned a session, StartCharging for the same user.

InitializeFails(u, p, f) ==
    LET o == InitializeOutcome(u, p, f) IN
    /\ Len(rows) < MaxSessions
    /\ ~o.ok
    /\ rows' = o.rows
    /\ portStatus' = o.ports
    /\ active_sessions' = o.active
    /\ faults' = IF p \in Ports /\ f # "none" THEN faults + 1 ELSE faults
    /\ lastOp' = Call("initialize", o.sid, FALSE, o.msg, p, u, 0, NoCode, NoEstimate)
    /\ UNCHANGED <<stationStatus, stationExists, apply, audit, balance, points, transactions,
                   usage_count, exhausted, user_id, conn, stop, clock, debits, discountUses, payTx, endWrites,
                   settled, stopIssued>>

StartRejected(u, p, target, car, dc) ==
    LET o == InitializeOutcome(u, p, "none")
        sess == o.active[o.sid]
        v == StartVerdict(sess, u, target, car, dc)
        pv == Preview(sess, target, dc)
    IN
    /\ Len(rows) < MaxSessions
    /\ o.ok
    /\ v # "ok"
    /\ rows' = o.rows
    /\ portStatus' = StartRejectPorts(o.ports, sess, v)
    /\ active_sessions' = o.active
    /\ usage_count' = pv.usage
    /\ exhausted' = Exhausted(exhausted, pv.usage)
    /\ discountUses' = CountUse(discountUses, o.sid, pv.status, dc)
    /\ lastOp' = Call("start_charging", o.sid, FALSE, v, p, u, target, dc,
                      IF v = "system_error" THEN NoEstimate ELSE pv.amount)
    /\ UNCHANGED <<stationStatus, stationExists, apply, audit, balance, points, transactions,
                   user_id, conn, stop, clock, faults, debits, payTx, endWrites,
                   settled, stopIssued>>

StartAccepted(u, p, target, car, dc) ==
    LET o == InitializeOutcome(u, p, "none")
        sess == o.active[o.sid]
        v == StartVerdict(sess, u, target, car, dc)
        pv == Preview(sess, target, dc)
    IN
    /\ Len(rows) < MaxSessions
    /\ o.ok
    /\ v = "ok"
    /\ rows' = [o.rows EXCEPT ![o.sid].car_id = car]
    /\ portStatus' = o.ports
    /\ active_sessions' =
          [o.active EXCEPT ![o.sid] = StartedActive(sess, target, car, dc)]
    /\ usage_count' = pv.usage
    /\ exhausted' = Exhausted(exhausted, pv.usage)
    /\ discountUses' = CountUse(discountUses, o.sid, pv.status, dc)
    /\ lastOp' = Call("start_charging", o.sid, TRUE, "ok", p, u, target, dc,
                      pv.amount)
    /\ UNCHANGED <<stationStatus, stationExists, apply, audit, balance, points, transactions,
                   user_id, conn, stop, clock, faults, debits, payTx, endWrites,
                   settled, stopIssued>>

\* codes is the set of discount codes clients send with start_charging
PairingSteps(users, codes, targets) ==
    \E u \in users, p \in PortInputs, target \in targets, car \in CarInputs :
        \/ \E f \in InitFaultKinds :
               /\ (f # "none" => TRUE \in FaultChoices)
               /\ InitializeFails(u, p, f)
        \/ \E dc \in codes : StartRejected(u, p, target, car, dc)
        \/ \E dc \in codes : StartAccepted(u, p, target, car, dc)

PairingStep(users, codes) == PairingSteps(users, codes, 1..MaxTarget)

\* init_charging_process for any user; how the user got there (the pairing
\* token) is left out
InitChargingProcess(codes) == PairingStep(Users, codes) /\ UNCHANGED qr

\* ------------------------------------------------------- Session Registry: tick

\* UpdateTickActive without the checkpoint being moved
UpdateTickActive_KeepCheckpoint(act, s, kwh, status, cost) ==
    IF act[s] = NoSession THEN act
    ELSE [act EXCEPT ![s] =
            [@ EXCEPT !.current_kwh = kwh, !.current_cost = cost,
                      !.charging_status = status]]

\* update_charging_status: the registry after the call (unchanged when the
\* session is absent)
UpdateTickActive(act, s, kwh, status, cost) ==
    IF act[s] = NoSession THEN act
    ELSE LET pts == (kwh - act[s].last_points_kwh) * 100 IN
         [act EXCEPT ![s] =
            [@ EXCEPT !.current_kwh = kwh, !.current_cost = cost,
                      !.charging_status = status,
                      !.last_points_kwh = IF pts > 0 THEN kwh ELSE @]]

\* update_charging_status: whether the call returns True
UpdateTickOk(act, s) == act[s] # NoSession

\* UpdateTickPoints without the test that the number of points is positive
UpdateTickPoints_NoSignTest(pt, act, s, kwh) ==
    IF act[s] = NoSession THEN pt
    ELSE LET pts == (kwh - act[s].last_points_kwh) * 100 IN
         [pt EXCEPT ![act[s].user_id] = @ + pts]

\* update_charging_status: the users' points after the call
UpdateTickPoints(pt, act, s, kwh) ==
    IF act[s] = NoSession THEN pt
    ELSE LET pts == (kwh - act[s].last_points_kwh) * 100 IN
         IF pts > 0 THEN [pt EXCEPT ![act[s].user_id] = @ + pts] ELSE pt

\* update_charging_status called with energy kwh and status st for session s
UpdateTick(s, kwh, st) ==
    /\ active_sessions' =
          UpdateTickActive(active_sessions, s, kwh, st, kwh * PricePerKwh)
    /\ points' = UpdateTickPoints(points, active_sessions, s, kwh)
    /\ lastOp' = Call("update_tick", s, UpdateTickOk(active_sessions, s), st,
                      0, 0, kwh, NoCode, NoEstimate)
    /\ UNCHANGED <<portStatus, stationStatus, stationExists, apply, qr, audit, rows, balance,
                   transactions, usage_count, exhausted, user_id, conn, stop,
                   clock, faults, debits, discountUses, payTx, endWrites, settled,
                   stopIssued>>

\* the statuses the callers of update_charging_status pass
TickStatuses == {"active", "done", "interrupted"}

\* check_charging_availability: <<can_continue, interrupt_reason>>
CheckAvailability(s) ==
    LET sess == active_sessions[s] IN
    IF sess = NoSession THEN <<FALSE, "session_not_found">>
    ELSE IF portStatus[sess.port_id] = "Maintenance" THEN <<FALSE, "port_maintenance">>
    ELSE IF ~stationExists THEN <<FALSE, "system_error">>
    ELSE IF stationStatus = "Maintenance" THEN <<FALSE, "station_maintenance">>
    ELSE <<TRUE, "none">>

\* EndReason with the target tested first
EndReason_TargetFirst(kwh, target) ==
    IF kwh >= target THEN "target_reached"
    ELSE IF (kwh * 100) \div BatteryCapacity >= 100 THEN "battery_full"
    ELSE IF kwh >= BatteryCapacity THEN "capacity_reached"
    ELSE "none"

\* the termination test of the loop, in the order of the source
EndReason(kwh, target) ==
    IF (kwh * 100) \div BatteryCapacity >= 100 THEN "battery_full"
    ELSE IF kwh >= BatteryCapacity THEN "capacity_reached"
    ELSE IF kwh >= target THEN "target_reached"
    ELSE "none"

\* ------------------------------------------------------------------ Settlement
\* end_charging_session runs in two stages separated by storage calls:
\* the payment (process_payment) and the finish (end_session, port release,
\* removal from the registry).  Other threads run between the two.

\* the storage calls of process_payment that may raise: the commit of
\* apply_discount, create_transaction, update_balance
PayFaultKinds == {"none", "discount", "tx", "balance"}
EndFaultKinds == {"none", "end_session", "port_release"}

\* what end_charging_session finds before it pays
PaymentVerdict(s) ==
    IF active_sessions[s] = NoSession THEN "no_session"
    ELSE IF active_sessions[s].car_id = NoKey THEN "no_car_key"
    ELSE "ok"

\* process_payment applies the session's discount code, if any: the cost to
\* charge, the status and the usage counters afterwards
SettleDiscount(sess, cost) ==
    IF sess.discount_code = NoCode
    THEN [amount |-> cost, status |-> "none", usage |-> usage_count]
    ELSE ApplyDiscount(usage_count, cost, sess.discount_code)

\* process_payment writes the Payment row, then debits the balance
PayTransactions(tx, sess, cost, f) ==
    IF f \in {"discount", "tx"} THEN tx
    ELSE Append(tx, [user_id |-> sess.user_id, amount |-> 0 - cost])

PayBalance(bal, sess, cost, f) ==
    IF f = "none" THEN [bal EXCEPT ![sess.user_id] = @ - cost] ELSE bal

\* whether the payment stage can run to the storage calls: the session and
\* its car_id are there and the discount lookup did not raise
PayReady(s) ==
    /\ PaymentVerdict(s) = "ok"
    /\ SettleDiscount(active_sessions[s], 0).status # "raised"

\* PaySucceeds with the storage failure ignored
PaySucceeds_IgnoresFault(s, f) == PayReady(s)

PaySucceeds(s, f) == PayReady(s) /\ f = "none"

\* the cost process_payment returns for session s
PaidCost(s, cost) ==
    IF PayReady(s) THEN SettleDiscount(active_sessions[s], cost).amount ELSE cost

\* the payment stage of Settle for session s
SettlePay(s, cost, f) ==
    /\ f # "none" => (TRUE \in FaultChoices /\ PayReady(s))
    /\ f = "discount" => active_sessions[s].discount_code # NoCode
    /\ IF PayReady(s)
       THEN LET sess == active_sessions[s]
                ap == IF f = "discount"
                      THEN [amount |-> cost, status |-> "raised",
                            usage |-> usage_count]
                      ELSE SettleDiscount(sess, cost)
            IN
            /\ usage_count' = ap.usage
            /\ exhausted' = Exhausted(exhausted, ap.usage)
            /\ discountUses' =
                  CountUse(discountUses, s, ap.status, sess.discount_code)
            /\ transactions' = PayTransactions(transactions, sess, ap.amount, f)
            /\ balance' = PayBalance(balance, sess, ap.amount, f)
            /\ payTx' = [payTx EXCEPT ![s] =
                            IF f \in {"discount", "tx"} THEN @ ELSE @ + 1]
            /\ debits' = [debits EXCEPT ![s] = IF f = "none" THEN @ + 1 ELSE @]
            /\ faults' = IF f = "none" THEN faults ELSE faults + 1
       ELSE UNCHANGED <<transactions, usage_count, exhausted, balance, payTx, debits, discountUses, faults>>

\* end_session: the row after the end fields are written
EndedRow(row, energy, cost, now) ==
    [row EXCEPT !.end_on = now, !.energy_consumed = energy, !.cost = cost]

\* ReleasePorts that leaves a port in Maintenance alone
ReleasePorts_KeepMaintenance(ps, p, fe) ==
    IF fe = "port_release" \/ ps[p] = "Maintenance" THEN ps
    ELSE UpdatePortStatus(ps, p, "Available")

\* the port table after the release step of Settle
ReleasePorts(ps, p, fe) ==
    IF fe = "port_release" THEN ps ELSE UpdatePortStatus(ps, p, "Available")

\* the registry after Settle removed the session
RemoveActive(act, s) == [act EXCEPT ![s] = NoSession]

\* the finish stage of Settle for session s; act is the registry as the
\* caller left it
SettleFinish(act, s, energy, cost, reason, fe) ==
    /\ fe # "none" => TRUE \in FaultChoices
    /\ IF fe = "end_session"
       THEN /\ faults' = faults + 1
            /\ active_sessions' = act
            /\ UNCHANGED <<rows, clock, endWrites, portStatus, settled>>
       ELSE /\ rows' = [rows EXCEPT ![s] = EndedRow(@, energy, cost, clock + 1)]
            /\ clock' = clock + 1
            /\ endWrites' = [endWrites EXCEPT ![s] = @ + 1]
            /\ portStatus' = ReleasePorts(portStatus, rows[s].port_id, fe)
            /\ active_sessions' = RemoveActive(act, s)
            /\ settled' = [settled EXCEPT ![s] = Append(@, reason)]
            /\ faults' = IF fe = "none" THEN faults ELSE faults + 1

\* --------------------------------------------------------------- stop endpoint
\* POST /charging/stop: ownership check, then Settle with the registry's
\* current energy and cost and reason user_stopped.

StopRejected(u, s) ==
    LET sess == GetSessionStatus(s) IN
    /\ stop.pc = "idle"
    /\ OwnerOf(sess) # u
    /\ lastOp' = NoOp
    /\ UNCHANGED <<portStatus, stationStatus, stationExists, apply, qr, audit, rows, active_sessions,
                   balance, points, transactions, usage_count, exhausted, user_id, conn, stop, clock,
                   faults, debits, discountUses, payTx, endWrites, settled, stopIssued>>

StopBegin(u, s, f) ==
    LET sess == GetSessionStatus(s) IN
    /\ stop.pc = "idle"
    /\ OwnerOf(sess) = u
    /\ SettlePay(s, sess.current_cost, f)
    /\ stopIssued' = [stopIssued EXCEPT ![s] = TRUE]
    /\ IF PaySucceeds(s, f)
       THEN stop' = [pc |-> "finish", sid |-> s,
                     final_energy |-> sess.current_kwh,
                     final_cost |-> PaidCost(s, sess.current_cost)]
       ELSE stop' = IdleStop
    /\ lastOp' = NoOp
    /\ UNCHANGED <<portStatus, stationStatus, stationExists, apply, qr, audit, rows, active_sessions,
                   points, user_id, conn, clock, endWrites, settled>>

StopFinish(fe) ==
    /\ stop.pc = "finish"
    /\ SettleFinish(active_sessions, stop.sid, stop.final_energy, stop.final_cost,
                    "user_stopped", fe)
    /\ stop' = IdleStop
    /\ lastOp' = NoOp
    /\ UNCHANGED <<stationStatus, stationExists, apply, qr, audit, balance, points, transactions,
                   usage_count, exhausted, user_id, conn, debits, discountUses, payTx, stopIssued>>

StopCharging ==
    \/ \E u \in Users, s \in SessionIds : StopRejected(u, s)
    \/ \E u \in Users, s \in SessionIds, f \in PayFaultKinds : StopBegin(u, s, f)
    \/ \E fe \in EndFaultKinds : StopFinish(fe)

\* ------------------------------------------------------------- staff endpoints

\* PATCH /ports/<id>/status
UpdatePortStatusEndpoint(p, st) ==
    /\ portStatus[p] # st
    /\ portStatus' = UpdatePortStatus(portStatus, p, st)
    /\ UNCHANGED <<stationStatus, stationExists, apply, qr, audit, rows, active_sessions, balance,
                   points, transactions, usage_count, exhausted, user_id, conn, stop, clock, faults,
                   debits, discountUses, payTx, endWrites, settled, stopIssued>>
    /\ lastOp' = NoOp

\* AuditLogsService.log_action: one more row, stamped with the current time
LogAction(a, action, st) ==
    [a EXCEPT !.logs = Append(@, [action |-> action, station_id |-> st,
                                  created_on |-> a.now])]

\* the station_failure rows of station st written in the trailing 24 hours
RecentFailures(a, st) ==
    {i \in 1..Len(a.logs) :
        /\ a.logs[i].action = "station_failure"
        /\ a.logs[i].station_id = st
        /\ a.logs[i].created_on >= a.now - Window}

\* the station_failure rows written so far
FailureRows(a) ==
    Cardinality({i \in 1..Len(a.logs) : a.logs[i].action = "station_failure"})

\* log_station_failure: count the recent failures of the station, log this
\* one, and log station_critical_failure when the count with this one is at
\* least CriticalAfter
LogStationFailure(a, st) ==
    LET failure_logs == RecentFailures(a, st)
        logged == LogAction(a, "station_failure", st)
    IN  IF Cardinality(failure_logs) + 1 >= CriticalAfter
        THEN LogAction(logged, "station_critical_failure", st)
        ELSE logged

\* log_station_failure called for any station
LogStationFailureCall(st) ==
    /\ FailureRows(audit) < MaxFailures
    /\ audit' = LogStationFailure(audit, st)
    /\ UNCHANGED <<portStatus, stationStatus, stationExists, rows, active_sessions,
                   balance, points, transactions, usage_count, exhausted,
                   apply, qr, user_id, conn, stop, clock, faults, debits,
                   discountUses, payTx, endWrites, settled, stopIssued, lastOp>>

\* 12 hours pass
AuditTick ==
    /\ audit.now < MaxTime
    /\ audit' = [audit EXCEPT !.now = @ + 1]
    /\ UNCHANGED <<portStatus, stationStatus, stationExists, rows, active_sessions,
                   balance, points, transactions, usage_count, exhausted,
                   apply, qr, user_id, conn, stop, clock, faults, debits,
                   discountUses, payTx, endWrites, settled, stopIssued, lastOp>>

\* PATCH /stations/<id>/status: the status is stored as sent, lower-cased, and
\* log_station_failure is called whatever the new status is (the test
\* `new_status == "inactive" or "maintenance"` is always true)
UpdateStationStatus(st) ==
    /\ stationExists
    /\ stationStatus # st
    /\ FailureRows(audit) < MaxFailures
    /\ stationStatus' = st
    /\ audit' = LogStationFailure(audit, TheStation)
    /\ UNCHANGED <<portStatus, stationExists, apply, qr, rows, active_sessions, balance,
                   points, transactions, usage_count, exhausted, user_id, conn, stop, clock, faults,
                   debits, discountUses, payTx, endWrites, settled, stopIssued>>
    /\ lastOp' = NoOp

\* DELETE /stations/delete/<id>
DeleteStation ==
    /\ stationExists
    /\ stationExists' = FALSE
    /\ UNCHANGED <<portStatus, stationStatus, apply, qr, audit, rows, active_sessions,
                   balance, points, transactions, usage_count, exhausted, user_id,
                   conn, stop, clock, faults, debits, discountUses, payTx, endWrites, settled,
                   stopIssued>>
    /\ lastOp' = NoOp

PortStaff ==
    \E p \in Ports, st \in PortStatuses : UpdatePortStatusEndpoint(p, st)

StationStaff ==
    \/ \E st \in StationStatuses : UpdateStationStatus(st)
    \/ DeleteStation

\* --------------------------------------------------- telemetry loop (one per
\* live /ws/charging/<session_id> connection)

\* ws.send delivers only while the connection is open
Emit(cn, e) == IF cn.connected THEN cn.events \cup {e} ELSE cn.events

\* the token is decoded and its subject stored in the module global user_id
ConnOpen(c, u, s) ==
    /\ conn[c].pc = "idle"
    /\ user_id' = u
    /\ conn' = [conn EXCEPT ![c] = [@ EXCEPT !.pc = "auth", !.uid = u, !.sid = s,
                                              !.connected = TRUE]]
    /\ UNCHANGED <<portStatus, stationStatus, stationExists, apply, qr, audit, rows, active_sessions,
                   balance, points, transactions, usage_count, exhausted, stop, clock, faults, debits, discountUses,
                   payTx, endWrites, settled, stopIssued>>
    /\ lastOp' = NoOp

\* no token in the request: an error is sent and the handler returns
ConnNoToken(c, s) ==
    /\ conn[c].pc = "idle"
    /\ conn' = [conn EXCEPT ![c] = [@ EXCEPT !.pc = "end", !.sid = s,
                                              !.events = {"error"}]]
    /\ UNCHANGED <<portStatus, stationStatus, stationExists, apply, qr, audit, rows, active_sessions,
                   balance, points, transactions, usage_count, exhausted, user_id, stop, clock, faults,
                   debits, discountUses, payTx, endWrites, settled, stopIssued>>
    /\ lastOp' = NoOp

\* the ownership test of charging_socket, against the global user_id
OwnershipVerdict(sess, uid) ==
    IF OwnerOf(sess) # uid THEN "no_access"
    ELSE IF sess.car_id = NoKey THEN "key_error"
    ELSE "ok"

ConnCheck(c) ==
    LET cn == conn[c]
        sess == GetSessionStatus(cn.sid)
        v == OwnershipVerdict(sess, user_id)
    IN
    /\ cn.pc = "auth"
    /\ conn' = [conn EXCEPT ![c] =
          IF v = "no_access" THEN [cn EXCEPT !.pc = "end", !.events = Emit(cn, "error")]
          ELSE IF v = "key_error" THEN [cn EXCEPT !.pc = "end"]
          ELSE [cn EXCEPT !.pc = "loop", !.owner = sess.user_id,
                          !.target = sess.target_kwh,
                          !.events = Emit(cn, "charging_started")]]
    /\ UNCHANGED <<portStatus, stationStatus, stationExists, apply, qr, audit, rows, active_sessions,
                   balance, points, transactions, usage_count, exhausted, user_id, stop, clock, faults,
                   debits, discountUses, payTx, endWrites, settled, stopIssued>>
    /\ lastOp' = NoOp

\* the client closes the connection (or the network drops it)
ConnClose(c) ==
    LET cn == conn[c]
        sess == GetSessionStatus(cn.sid)
    IN
    /\ cn.connected
    /\ cn.pc \in {"auth", "loop", "tick", "finish", "cleanup"}
    /\ conn' = [conn EXCEPT ![c] =
          [cn EXCEPT !.connected = FALSE,
                     !.midCharge = /\ cn.pc \in {"loop", "tick"}
                                   /\ sess # NoSession
                                   /\ sess.charging_status \in {"charging", "active"}]]
    /\ UNCHANGED <<portStatus, stationStatus, stationExists, apply, qr, audit, rows, active_sessions,
                   balance, points, transactions, usage_count, exhausted, user_id, stop, clock, faults,
                   debits, discountUses, payTx, endWrites, settled, stopIssued>>
    /\ lastOp' = NoOp

\* where the handler goes when Settle returned without reaching its finish
\* stage, or after the finish stage: the event of the call site is sent and
\* the finally block follows
AfterSettle(cn) ==
    IF cn.cont = "interrupted"
    THEN [cn EXCEPT !.pc = "cleanup", !.events = Emit(cn, "charging_interrupted")]
    ELSE IF cn.cont = "completed"
    THEN [cn EXCEPT !.pc = "cleanup", !.events = Emit(cn, "charging_completed")]
    ELSE [cn EXCEPT !.pc = "end"]

\* top of the loop: while ws.connected, CheckAvailability, and Settle's
\* payment stage when the session must be interrupted
ConnLoop(c, f) ==
    LET cn == conn[c]
        chk == CheckAvailability(cn.sid)
        cs == [cn EXCEPT !.reason = chk[2], !.cont = "interrupted",
                         !.final_cost = PaidCost(cn.sid, cn.current_cost)]
    IN
    /\ cn.pc = "loop"
    /\ IF ~cn.connected \/ chk[2] = "session_not_found"
       THEN /\ f = "none"
            /\ conn' = [conn EXCEPT ![c] = [cn EXCEPT !.pc = "cleanup"]]
            /\ UNCHANGED <<transactions, usage_count, exhausted, balance, payTx, debits, discountUses, faults>>
       ELSE IF chk[1]
       THEN /\ f = "none"
            /\ conn' = [conn EXCEPT ![c] = [cn EXCEPT !.pc = "tick"]]
            /\ UNCHANGED <<transactions, usage_count, exhausted, balance, payTx, debits, discountUses, faults>>
       ELSE /\ SettlePay(cn.sid, cn.current_cost, f)
            /\ conn' = [conn EXCEPT ![c] =
                  IF PaySucceeds(cn.sid, f) THEN [cs EXCEPT !.pc = "finish"]
                  ELSE AfterSettle(cs)]
    /\ UNCHANGED <<portStatus, stationStatus, stationExists, apply, qr, audit, rows, active_sessions,
                   points, user_id, stop, clock, endWrites, settled, stopIssued>>
    /\ lastOp' = NoOp

\* one tick: the fetch (m), accumulate, charging_update, UpdateTick,
\* termination test, and on termination the second UpdateTick (done) and
\* Settle's payment stage
ConnTick(c, f, m) ==
    LET cn == conn[c]
        s == cn.sid
        kwh == cn.current_kwh + EnergyDelta(m)
        cost == cn.current_cost + EnergyDelta(m) * PricePerKwh
        ct == [cn EXCEPT !.current_kwh = kwh, !.current_cost = cost,
                         !.meter = m]
        act1 == UpdateTickActive(active_sessions, s, kwh, "active", cost)
        pts1 == UpdateTickPoints(points, active_sessions, s, kwh)
        er == EndReason(kwh, cn.target)
        act2 == UpdateTickActive(act1, s, kwh, "done", cost)
        pts2 == UpdateTickPoints(pts1, act1, s, kwh)
        cs == [ct EXCEPT !.reason = er, !.cont = "completed",
                         !.final_cost = PaidCost(s, cost),
                         !.events = Emit(cn, "charging_update")]
    IN
    /\ cn.pc = "tick"
    /\ IF ~cn.connected
       THEN \* ws.send raises: the except block, then finally
            /\ f = "none"
            /\ conn' = [conn EXCEPT ![c] = [ct EXCEPT !.pc = "cleanup"]]
            /\ UNCHANGED <<active_sessions, points, transactions, usage_count, exhausted, balance, payTx,
                           debits, discountUses, faults>>
       ELSE IF er = "none"
       THEN /\ f = "none"
            /\ conn' = [conn EXCEPT ![c] =
                  [ct EXCEPT !.pc = "loop", !.events = Emit(cn, "charging_update")]]
            /\ active_sessions' = act1
            /\ points' = pts1
            /\ UNCHANGED <<transactions, usage_count, exhausted, balance, payTx, debits, discountUses, faults>>
       ELSE /\ active_sessions' = act2
            /\ points' = pts2
            /\ SettlePay(s, cost, f)
            /\ conn' = [conn EXCEPT ![c] =
                  IF PaySucceeds(s, f) THEN [cs EXCEPT !.pc = "finish"]
                  ELSE AfterSettle(cs)]
    /\ UNCHANGED <<portStatus, stationStatus, stationExists, apply, qr, audit, rows, user_id, stop,
                   clock, endWrites, settled, stopIssued>>
    /\ lastOp' = NoOp

\* the finish stage of a Settle call made by the loop or by its cleanup
ConnFinish(c, fe) ==
    LET cn == conn[c] IN
    /\ cn.pc = "finish"
    /\ SettleFinish(active_sessions, cn.sid, cn.current_kwh, cn.final_cost,
                    cn.reason, fe)
    /\ conn' = [conn EXCEPT ![c] = AfterSettle(cn)]
    /\ UNCHANGED <<stationStatus, stationExists, apply, qr, audit, balance, points, transactions,
                   usage_count, exhausted, user_id, stop, debits, discountUses, payTx, stopIssued>>
    /\ lastOp' = NoOp

\* the statuses for which the finally block skips settlement
SettledStatuses == {"stopped", "completed"}

\* whether the finally block settles the session
CleanupSettles(sess) ==
    sess # NoSession /\ sess.charging_status \notin SettledStatuses

\* the finally block: settle with connection_lost unless the session is gone
ConnCleanup(c, f) ==
    LET cn == conn[c]
        s == cn.sid
        sess == GetSessionStatus(s)
        cs == [cn EXCEPT !.reason = "connection_lost", !.cont = "cleanup",
                         !.final_cost = PaidCost(s, cn.current_cost)]
    IN
    /\ cn.pc = "cleanup"
    /\ IF ~CleanupSettles(sess)
       THEN /\ f = "none"
            /\ conn' = [conn EXCEPT ![c] = [cn EXCEPT !.pc = "end"]]
            /\ UNCHANGED <<active_sessions, points, transactions, usage_count, exhausted, balance, payTx,
                           debits, discountUses, faults>>
       ELSE /\ active_sessions' = UpdateTickActive(active_sessions, s,
                                      cn.current_kwh, "interrupted", cn.current_cost)
            /\ points' = UpdateTickPoints(points, active_sessions, s, cn.current_kwh)
            /\ SettlePay(s, cn.current_cost, f)
            /\ conn' = [conn EXCEPT ![c] =
                  IF PaySucceeds(s, f) THEN [cs EXCEPT !.pc = "finish"]
                  ELSE AfterSettle(cs)]
    /\ UNCHANGED <<portStatus, stationStatus, stationExists, apply, qr, audit, rows, user_id, stop,
                   clock, endWrites, settled, stopIssued>>
    /\ lastOp' = NoOp

\* the handshake of a connection
Handshake(c) ==
    \/ \E u \in Users, s \in SessionIds : ConnOpen(c, u, s)
    \/ \E s \in SessionIds : ConnNoToken(c, s)
    \/ ConnCheck(c)

\* the loop, its Settle calls and its cleanup
TelemetryWith(c, meter) ==
    \/ ConnClose(c)
    \/ \E f \in PayFaultKinds : ConnLoop(c, f)
    \/ \E f \in PayFaultKinds, m \in meter : ConnTick(c, f, m)
    \/ \E fe \in EndFaultKinds : ConnFinish(c, fe)
    \/ \E f \in PayFaultKinds : ConnCleanup(c, f)

\* the handler with the meter out of reach
Telemetry(c) == TelemetryWith(c, {MeterDown})

ChargingSocket == \E c \in LoopConns : Handshake(c) \/ Telemetry(c)

\* ------------------------------------------------------------ pairing tokens
\* /ws/qr (qr_waiting_socket) creates a token, polls the token store once a
\* second and removes the token when it ends; POST /station/scan-qr (scan_qr)
\* attaches the station context to a token.

\* Service._global_cache.pop(cache_key, None)
PopToken(q, t) ==
    [q EXCEPT !.cache[t] = NoEntry, !.discarded = @ \cup {t}]

\* the handler of connection c ends: the finally block pops the token
QrEnd(q, c, e) ==
    [PopToken(q, c) EXCEPT
        !.ws[c].pc = "done",
        !.ws[c].events = IF q.ws[c].connected /\ e # "none"
                         THEN @ \cup {e} ELSE @]

\* every variable but qr
sessionVars ==
    <<portStatus, stationStatus, stationExists, rows, active_sessions, balance,
      points, transactions, usage_count, exhausted, apply, audit, user_id, conn, stop,
      clock, faults, debits, discountUses, payTx, endWrites, settled,
      stopIssued, lastOp>>

\* no JWT, or one that does not decode: an error is sent, no token is made
QrNoToken(c) ==
    /\ qr.ws[c].pc = "idle"
    /\ qr' = [qr EXCEPT !.ws[c].pc = "done", !.ws[c].events = {"error"}]
    /\ UNCHANGED sessionVars

\* the token is generated, stored for 5 minutes and sent to the client
QrOpen(c, u) ==
    /\ qr.ws[c].pc = "idle"
    /\ qr' = [qr EXCEPT
                 !.cache[c] = [user_id |-> u, station |-> NoContext],
                 !.ws[c] = [pc |-> "poll", connected |-> TRUE, user |-> u,
                            events |-> {"qr_token"}]]
    /\ UNCHANGED sessionVars

\* the client closes the pairing connection
QrClose(c) ==
    /\ qr.ws[c].connected
    /\ qr.ws[c].pc \in {"poll", "await", "init"}
    /\ qr' = [qr EXCEPT !.ws[c].connected = FALSE]
    /\ UNCHANGED sessionVars

\* the token's expiration time passes
QrExpire(t) ==
    /\ qr.ws[t].pc # "idle"
    /\ t \notin qr.expired
    /\ qr' = [qr EXCEPT !.expired = @ \cup {t}]
    /\ UNCHANGED sessionVars

\* one round of the poll loop that does something: the connection is gone,
\* the entry is gone, the token has expired, or the station context has been
\* attached (cars: whether the user has cars)
QrPoll(c, cars) ==
    LET e == qr.cache[c] IN
    /\ qr.ws[c].pc = "poll"
    /\ qr' = IF ~qr.ws[c].connected THEN QrEnd(qr, c, "none")
             ELSE IF e = NoEntry THEN QrEnd(qr, c, "error")
             ELSE IF c \in qr.expired THEN QrEnd(qr, c, "error")
             ELSE IF ~cars THEN QrEnd(qr, c, "error")
             ELSE [qr EXCEPT !.ws[c].pc = "await",
                             !.ws[c].events = @ \cup {"station_connected"}]
    /\ IF ~qr.ws[c].connected \/ e = NoEntry \/ c \in qr.expired THEN TRUE
       ELSE e.station # NoContext
    /\ UNCHANGED sessionVars

\* ws.receive() after station_connected: confirm_connection leads to
\* init_charging_process, anything else (or a closed connection) ends
QrConfirm(c, confirmed) ==
    /\ qr.ws[c].pc = "await"
    /\ qr' = IF qr.ws[c].connected /\ confirmed
             THEN [qr EXCEPT !.ws[c].pc = "init"]
             ELSE QrEnd(qr, c, "none")
    /\ UNCHANGED sessionVars

\* init_charging_process runs for the token's user and returns; then the
\* finally block pops the token.  The client may leave before it sends
\* start_charging.
QrInit(c) ==
    /\ qr.ws[c].pc = "init"
    /\ qr' = QrEnd(qr, c, "none")
    /\ \/ qr.ws[c].connected /\ PairingStep({qr.ws[c].user}, {NoCode})
       \/ ~qr.ws[c].connected /\ UNCHANGED sessionVars

\* the handler up to the call of init_charging_process
QrWaiting(c) ==
    \/ QrNoToken(c)
    \/ \E u \in Users : QrOpen(c, u)
    \/ QrClose(c)
    \/ \E cars \in BOOLEAN : QrPoll(c, cars)
    \/ \E confirmed \in BOOLEAN : QrConfirm(c, confirmed)

QrWaitingSocket(c) == QrWaiting(c) \/ QrInit(c)

\* ScanVerdict without the expiration test
ScanVerdict_NoExpiryTest(q, t, st) ==
    IF q.cache[t] = NoEntry THEN "invalid"
    ELSE IF st # TheStation \/ ~stationExists THEN "no_station"
    ELSE "ok"

\* scan_qr, first half: the entry is read from the store, its expiration is
\* tested and the station is looked up
ScanVerdict(q, t, st) ==
    IF q.cache[t] = NoEntry \/ t \in q.expired THEN "invalid"
    ELSE IF st # TheStation \/ ~stationExists THEN "no_station"
    ELSE "ok"

ScanBegin(k, t, st, ctx) ==
    LET v == ScanVerdict(qr, t, st) IN
    /\ qr.scan[k].pc = "idle"
    /\ qr' = [qr EXCEPT !.scan[k] =
                 IF v = "ok"
                 THEN [pc |-> "loaded", token |-> t,
                       user |-> qr.cache[t].user_id, ctx |-> ctx,
                       result |-> "none"]
                 ELSE [pc |-> "idle", token |-> 0, user |-> 0,
                       ctx |-> NoContext, result |-> v]]
    /\ UNCHANGED sessionVars

\* scan_qr, second half: station_data is put into the entry that was read and
\* the entry is stored under the token's key
ScanFinish(k) ==
    LET sc == qr.scan[k] IN
    /\ sc.pc = "loaded"
    /\ qr' = [qr EXCEPT
                 !.cache[sc.token] = [user_id |-> sc.user, station |-> sc.ctx],
                 !.scan[k] = [sc EXCEPT !.pc = "idle", !.result = "ok"]]
    /\ UNCHANGED sessionVars

ScanQr(k) ==
    \/ \E t \in Tokens, st \in StationInputs, ctx \in Contexts :
          ScanBegin(k, t, st, ctx)
    \/ ScanFinish(k)

\* The session lifecycle: pairing, one telemetry loop per loop connection, the
\* stop endpoint and staff changing port status, with storage failures.
Next ==
    \/ InitChargingProcess({NoCode})
    \/ StopCharging
    \/ PortStaff
    \/ ChargingSocket

Spec == Init /\ [][Next]_vars

\* The lifecycle while staff change or delete the station.
NextStation ==
    \/ InitChargingProcess({NoCode})
    \/ StationStaff
    \/ ChargingSocket

SpecStation == Init /\ [][NextStation]_vars

\* Connections opening concurrently: the handshakes of all connections.
NextAuth ==
    \/ InitChargingProcess({NoCode})
    \/ \E c \in Conns : Handshake(c)

SpecAuth == Init /\ [][NextAuth]_vars

\* One session driven by several live telemetry connections: every
\* connection runs the whole handler, and two of them may name the same
\* session.
NextShared ==
    \/ Len(rows) = 0 /\ InitChargingProcess({NoCode})
    \/ \E c \in Conns : Handshake(c) \/ Telemetry(c)

SpecShared == Init /\ [][NextShared]_vars

\* Pairing by token: the pairing connections, the station's scan requests (one
\* at a time) and the passing of time.
NextPairing ==
    \/ \E c \in PairConns : QrWaitingSocket(c)
    \/ ScanQr(1)
    \/ \E t \in Tokens : QrExpire(t)

SpecPairing == Init /\ [][NextPairing]_vars

\* One session of any target driven by its telemetry loop.
NextLoop ==
    \/ /\ Len(rows) = 0
       /\ PairingSteps(Users, {NoCode}, 1..MaxLoopTarget)
       /\ UNCHANGED qr
    \/ ChargingSocket

SpecLoop == InitLoop /\ [][NextLoop]_vars

\* One session driven by its telemetry loop, with every outcome of the fetch
\* from the meter.
NextMeter ==
    \/ Len(rows) = 0 /\ InitChargingProcess({NoCode})
    \/ \E c \in LoopConns : Handshake(c) \/ TelemetryWith(c, MeterReadings)

SpecMeter == Init /\ [][NextMeter]_vars

\* Station failures logged for the station and for another one, through the
\* status route and directly, while time passes.
NextAudit ==
    \/ \E st \in StationStatuses : UpdateStationStatus(st)
    \/ \E st \in StationInputs : LogStationFailureCall(st)
    \/ AuditTick

SpecAudit == Init /\ [][NextAudit]_vars

\* Concurrent scan requests against the tokens of waiting pairing
\* connections, up to the point where a handler calls init_charging_process.
NextScan ==
    \/ \E c \in PairConns : QrWaiting(c)
    \/ \E k \in Scanners : ScanQr(k)
    \/ \E t \in Tokens : QrExpire(t)

SpecScan == Init /\ [][NextScan]_vars

\* The lifecycle of sessions started with discount codes.
NextDiscount ==
    \/ InitChargingProcess(CodeInputs)
    \/ StopCharging
    \/ ChargingSocket

SpecDiscount == Init /\ [][NextDiscount]_vars

\* Concurrent requests to the discount endpoint.
NextApply == ApplyDiscountEndpoint

SpecApply == Init /\ [][NextApply]_vars

\* UpdateTick applied to every session id, energy and status, on the
\* registries pairing produces.
NextTick ==
    \/ InitChargingProcess({NoCode})
    \/ \E s \in SessionIds, kwh \in 0..MaxEnergy, st \in TickStatuses :
           UpdateTick(s, kwh, st)

SpecTick == Init /\ [][NextTick]_vars

\* ======================================================================
\* Properties of the session lifecycle
\* ======================================================================

\* C1: whenever a connection handler ends after its connection closed while
\* the session was charging, and no stop was issued for the session, the
\* session has been settled exactly once, with reason connection_lost, its
\* port is Available and it is gone from the registry.
C1_ConnectionLostSettlesOnce ==
    [][\A c \in LoopConns :
          (/\ conn[c].pc # "end"
           /\ conn'[c].pc = "end"
           /\ conn'[c].midCharge
           /\ ~stopIssued'[conn'[c].sid])
          => (/\ settled'[conn'[c].sid] = <<"connection_lost">>
              /\ active_sessions'[conn'[c].sid] = NoSession
              /\ portStatus'[rows'[conn'[c].sid].port_id] = "Available")]_vars

\* C2: every session in the registry can be settled: a Settle call whose
\* storage calls all work gets through its payment stage, so that it goes on
\* to persist the end fields, release the port and remove the session.  This
\* includes a session still in status initialized.
C2_RegisteredSessionCanSettle ==
    \A s \in SessionIds :
        active_sessions[s] # NoSession => PaySucceeds(s, "none")

\* C3: a port is InUse if and only if exactly one session in the registry
\* references it.
C3_InUseIffOneActiveSession ==
    \A p \in Ports :
        portStatus[p] = "InUse"
        <=> Cardinality({s \in SessionIds :
                            /\ active_sessions[s] # NoSession
                            /\ active_sessions[s].port_id = p}) = 1

\* C4: no port has two charging-session rows with end_on unset.
C4_OneOpenRowPerPort ==
    \A p \in Ports :
        Cardinality({i \in 1..Len(rows) :
                        rows[i].port_id = p /\ rows[i].end_on = Null}) <= 1

\* C5: for each session at most one Payment transaction is written and the
\* balance is debited at most once, however often Settle is invoked and
\* whichever step of an earlier Settle failed.
C5_PaymentAtMostOnce ==
    \A s \in SessionIds : debits[s] <= 1 /\ payTx[s] <= 1

\* C6: concurrent Settle calls for one session are serialized: no two of them
\* are between their payment and their finish at the same time, and while no
\* storage call has failed the session is debited once and its end fields are
\* written once.
C6_ConcurrentSettleSerialized ==
    /\ \A c \in LoopConns :
          ~(stop.pc = "finish" /\ conn[c].pc = "finish" /\ conn[c].sid = stop.sid)
    /\ faults = 0 => \A s \in SessionIds : debits[s] <= 1 /\ endWrites[s] <= 1

\* C7: a connection whose telemetry loop was started was authenticated, on
\* that connection, as the owner of the session.
C7_LoopOnlyForAuthenticatedOwner ==
    \A c \in Conns : conn[c].pc = "loop" => conn[c].uid = conn[c].owner

\* C8: while the station is in maintenance, set through the station status
\* endpoint, CheckAvailability for a session charging on it returns
\* (false, station_maintenance).
C8_StationMaintenanceInterrupts ==
    \A c \in LoopConns :
        LET sess == GetSessionStatus(conn[c].sid) IN
        (/\ conn[c].pc = "loop"
         /\ sess # NoSession
         /\ sess.charging_status \in {"charging", "active"}
         /\ portStatus[sess.port_id] # "Maintenance"
         /\ stationExists
         /\ stationStatus = "maintenance")
        => CheckAvailability(conn[c].sid) = <<FALSE, "station_maintenance">>

\* C9: after Initialize returned failure there is no new row, the port has
\* the status it had before the call and the registry has no entry for the
\* attempt.
C9_FailedInitializeLeavesNothing ==
    (lastOp.op = "initialize" /\ ~lastOp.ok)
    => /\ Len(rows) = lastOp.rowsBefore
       /\ lastOp.port \in Ports => portStatus[lastOp.port] = lastOp.portBefore
       /\ \A s \in SessionIds :
             s > lastOp.rowsBefore => active_sessions[s] = NoSession

\* C10: a StartCharging call for a session whose owner's balance is below the
\* estimated cost (target * price per kWh, halved by a discount code that
\* exists and has uses left) returned failure, set the port back to Available
\* and left the session without status charging.
C10_InsufficientBalanceRejected ==
    LET full == lastOp.target * PricePerKwh
        estimated == IF lastOp.code \in DiscountCodes /\ lastOp.usesBefore < MaxUses
                     THEN (full * (100 - DiscountValue)) \div 100
                     ELSE full
    IN  (lastOp.op = "start_charging" /\ balance[lastOp.user] < estimated)
        => /\ ~lastOp.ok
           /\ portStatus[lastOp.port] = "Available"
           /\ active_sessions[lastOp.sid].charging_status # "charging"

\* C11: a StartCharging call rejected with a domain error (insufficient
\* balance, vehicle not found, or a discount status other than SUCCESS)
\* changes no discount usage count, no balance and no points, and puts no
\* session in the registry beyond the one Initialize registered for the call.
C11_DomainRejectionChangesNothing ==
    [][(/\ lastOp'.op = "start_charging"
        /\ lastOp'.msg \in {"insufficient_balance", "car_not_found",
                            "discount_error"})
       => (/\ usage_count' = usage_count
           /\ balance' = balance
           /\ points' = points
           /\ {s \in SessionIds : active_sessions'[s] # NoSession}
                 = {s \in SessionIds : active_sessions[s] # NoSession}
                      \cup {lastOp'.sid})]_vars

\* C12: ApplyDiscount on a positive amount, judged on the row as the call
\* loaded it, returns NOT_FOUND for an unknown
\* code, EXPIRED for a code past its expiry and MAX_USES_REACHED for an
\* exhausted code, each with the amount and every usage count unchanged;
\* otherwise it returns SUCCESS with amount * (1 - value/100) and increases
\* that code's usage count by exactly 1.
C12_ApplyDiscountResult ==
    [][(lastOp'.op = "apply_discount" /\ lastOp'.target > 0)
       => LET code == lastOp'.code
              amount == lastOp'.target
              refused(st) == /\ lastOp'.msg = st
                             /\ lastOp'.estimated = amount
                             /\ usage_count' = usage_count
              loaded == [usage_count EXCEPT ![code] = lastOp'.usesBefore]
          IN  IF code \notin DiscountCodes THEN refused("NOT_FOUND")
              ELSE IF ExpiryOn(code) # Null /\ Now > ExpiryOn(code)
              THEN refused("EXPIRED")
              ELSE IF loaded[code] >= MaxUses
              THEN refused("MAX_USES_REACHED")
              ELSE /\ lastOp'.msg = "SUCCESS"
                   /\ lastOp'.estimated * 100 = amount * (100 - DiscountValue)
                   /\ usage_count' = [loaded EXCEPT ![code] = @ + 1]]_vars

\* C13: the usage count of a discount never exceeds its max uses, also when
\* requests apply the same code concurrently, and a request that arrives after
\* the code's usage count has equalled max uses is answered MAX_USES_REACHED.
C13_MaxUsesRespected ==
    [][/\ \A d \in DiscountCodes : usage_count'[d] <= MaxUses
       /\ \A r \in Appliers :
             (apply[r].pc = "loaded" /\ apply'[r].pc = "idle" /\ apply[r].late)
             => lastOp'.msg = "MAX_USES_REACHED"]_vars

\* C14: the discount code of a session is applied exactly once for it: over
\* the StartCharging call and the session's settlement the code's usage count
\* is increased once on the session's behalf (never, for a session without a
\* code).
C14_DiscountAppliedOncePerSession ==
    \A s \in SessionIds : discountUses[s] <= 1

C16_CostAndPointsOfCompletedSession ==
    \A s \in SessionIds :
        (/\ s <= Len(rows)
         /\ Len(settled[s]) = 1
         /\ ~stopIssued[s]
         /\ faults = 0
         /\ \A i \in 1..Len(rows) : rows[i].user_id = rows[s].user_id => i = s)
        => LET u == rows[s].user_id
               E == rows[s].energy_consumed
           IN  /\ rows[s].cost = E * PricePerKwh
               /\ debits[s] = 1
               /\ payTx[s] = 1
               /\ balance[u] = InitialBalance(u) - E * PricePerKwh
               /\ points[u] = 100 * E

\* C16 witness: a session that ran to its target of MaxTarget kWh has been
\* settled with reason target_reached
C16_Witness ==
    \E s \in SessionIds :
        /\ s <= Len(rows)
        /\ settled[s] = <<"target_reached">>
        /\ ~stopIssued[s]
        /\ faults = 0
        /\ \A i \in 1..Len(rows) : rows[i].user_id = rows[s].user_id => i = s
        /\ rows[s].energy_consumed = MaxTarget
        /\ points[rows[s].user_id] = 100 * MaxTarget

LoopSettles(c) ==
    /\ conn[c].pc = "loop"
    /\ conn[c].connected
    /\ CheckAvailability(conn[c].sid)[2] # "session_not_found"
    /\ ~CheckAvailability(conn[c].sid)[1]

TickSettles(c) ==
    /\ conn[c].pc = "tick"
    /\ conn[c].connected
    /\ EndReason(conn[c].current_kwh + NominalDelta, conn[c].target) # "none"

FinallySettles(c) ==
    /\ conn[c].pc = "cleanup"
    /\ CleanupSettles(GetSessionStatus(conn[c].sid))

\* the step is the payment stage of a Settle call for session s, made at any
\* of the call sites, with f the storage call that raises in it
SettleCallStep(s, f) ==
    \/ \E c \in LoopConns :
          /\ conn[c].sid = s
          /\ \/ LoopSettles(c) /\ ConnLoop(c, f)
             \/ TickSettles(c) /\ \E m \in MeterReadings : ConnTick(c, f, m)
             \/ FinallySettles(c) /\ ConnCleanup(c, f)
    \/ \E u \in Users : StopBegin(u, s, f)

\* the caller of Settle for session s enters the finish stage in this step
SettleGoesOn(s) ==
    \/ \E c \in LoopConns :
          conn[c].sid = s /\ conn[c].pc # "finish" /\ conn'[c].pc = "finish"
    \/ stop.pc = "idle" /\ stop'.pc = "finish" /\ stop'.sid = s

\* the step is a payment stage for the registered session s that fails: the
\* car_id is missing, or a storage call raises
FailedPayStep(s) ==
    /\ active_sessions[s] # NoSession
    /\ \E f \in PayFaultKinds :
          (~PayReady(s) \/ f # "none") /\ SettleCallStep(s, f)

\* the step is a payment stage that fails and yet the caller goes on to the
\* finish stage of Settle
FailedPayGoesOn(s) == FailedPayStep(s) /\ SettleGoesOn(s)

\* C18: when the payment stage of Settle fails, the caller does not go on to
\* the finish stage (Settle returns failure), and the step writes no end
\* timestamp, leaves the port table alone and keeps the registry entry.
C18_FailedPaymentKeepsSession ==
    [][\A s \in SessionIds :
          /\ ~FailedPayGoesOn(s)
          /\ FailedPayStep(s) =>
                /\ rows' = rows
                /\ endWrites' = endWrites
                /\ settled' = settled
                /\ portStatus' = portStatus
                /\ active_sessions'[s] # NoSession]_vars

\* C18 witness: a payment stage failed at the balance update (the Payment row
\* was written, nothing was debited) and the session is still registered,
\* its row open and its port in use
C18_Witness ==
    \E s \in SessionIds :
        /\ active_sessions[s] # NoSession
        /\ faults = 1
        /\ payTx[s] = 1
        /\ debits[s] = 0
        /\ rows[s].end_on = Null
        /\ endWrites[s] = 0
        /\ portStatus[rows[s].port_id] = "InUse"

\* the step is the payment stage of a Settle call for a session that holds a
\* discount code, nothing but the application of the code fails in it (the
\* code is answered with a status other than SUCCESS, or the discount store
\* raises), and the payment is made at the cost it was called with
DiscountFailsInSettle(s) ==
    /\ active_sessions[s] # NoSession
    /\ PaymentVerdict(s) = "ok"
    /\ active_sessions[s].discount_code # NoCode
    /\ \E f \in {"none", "discount"} :
          /\ SettleCallStep(s, f)
          /\ \/ f = "discount"
             \/ SettleDiscount(active_sessions[s], 0).status # "SUCCESS"

\* C19: a Settle call whose discount application fails is not blocked: its
\* caller goes on to the finish stage, and the user was debited once.
C19_DiscountFailureDoesNotBlockSettle ==
    [][\A s \in SessionIds :
          DiscountFailsInSettle(s) =>
              /\ SettleGoesOn(s)
              /\ debits'[s] = debits[s] + 1]_vars

\* C20: once a pairing token has been popped by its handler, it is absent
\* from the token store after every step, and no scan request for it passes
\* the validity test of scan_qr.
C20_DiscardedTokenStaysAbsent ==
    [][\A t \in Tokens :
          t \in qr.discarded =>
              /\ qr'.cache[t] = NoEntry
              /\ \A k \in Scanners :
                    ~(qr.scan[k].pc = "idle" /\ qr'.scan[k].pc = "loaded"
                      /\ qr'.scan[k].token = t)]_vars

\* the step in which scan request k answers or goes on to its write
ScanAnswers(k) == qr.scan[k].pc = "idle" /\ qr'.scan[k] # qr.scan[k]

\* C21: a scan request for a token that is unknown or expired when the
\* request reads the store fails and leaves the store as it was; a request
\* for a known, unexpired token (and an existing station) goes on and
\* succeeds, and the context the store then holds for the token is that
\* request's: the stored context only ever changes to the context of the
\* request that completes.
C21_AttachStationContext ==
    [][/\ \A k \in Scanners :
             /\ (ScanAnswers(k) /\ qr'.scan[k].pc = "idle") =>
                    /\ qr'.scan[k].result \in {"invalid", "no_station"}
                    /\ qr'.cache = qr.cache
             /\ (ScanAnswers(k) /\ qr'.scan[k].pc = "loaded") =>
                    LET t == qr'.scan[k].token IN
                    /\ qr.cache[t] # NoEntry
                    /\ t \notin qr.expired
                    /\ qr'.cache = qr.cache
             /\ (qr.scan[k].pc = "loaded" /\ qr'.scan[k].pc = "idle") =>
                    /\ qr'.scan[k].result = "ok"
                    /\ qr'.cache[qr.scan[k].token].station = qr.scan[k].ctx
       /\ \A t \in Tokens :
             (qr'.cache[t] # NoEntry /\ qr'.cache[t] # qr.cache[t]
              /\ qr.ws[t].pc # "idle") =>
                 \E k \in Scanners :
                    /\ qr.scan[k].pc = "loaded" /\ qr'.scan[k].pc = "idle"
                    /\ qr.scan[k].token = t
                    /\ qr'.cache[t].station = qr.scan[k].ctx]_vars

\* C21 witness: two requests for the same token have succeeded with different
\* contexts and the store holds the context of the second
C21_Witness ==
    \E t \in Tokens :
        /\ qr.scan[1].result = "ok" /\ qr.scan[1].token = t
        /\ qr.scan[2].result = "ok" /\ qr.scan[2].token = t
        /\ qr.scan[1].ctx # qr.scan[2].ctx
        /\ qr.cache[t] # NoEntry
        /\ qr.cache[t].station = qr.scan[2].ctx

\* telemetry connection c runs one tick in this step: it is connected, so the
\* charging_update is sent and UpdateTick is called
TickRuns(c) ==
    conn[c].pc = "tick" /\ conn[c].connected /\ conn'[c].pc # "tick"

\* the end reason the claim gives for energy kwh of a session with target
\* `target`: battery level (percent of the capacity, capped at 100) first,
\* then the capacity, then the target
ExpectedEndReason(kwh, target) ==
    LET level == IF kwh >= BatteryCapacity THEN 100
                 ELSE (kwh * 100) \div BatteryCapacity
    IN  IF level >= 100 THEN "battery_full"
        ELSE IF kwh >= BatteryCapacity THEN "capacity_reached"
        ELSE IF kwh >= target THEN "target_reached"
        ELSE "none"

\* C22: after a tick's update the loop ends on the first of battery_full,
\* capacity_reached, target_reached that holds: the session is marked done,
\* Settle is called with that reason and the loop is left; the
\* charging_completed event follows Settle's return while the client is
\* connected.  If none holds the loop goes round again.
C22_TerminationOrder ==
    [][\A c \in LoopConns :
          /\ TickRuns(c) =>
                LET s == conn[c].sid
                    kwh == conn[c].current_kwh + 1
                    er == ExpectedEndReason(kwh, conn[c].target)
                IN  IF er = "none"
                    THEN /\ conn'[c].pc = "loop"
                         /\ UNCHANGED <<balance, transactions, rows, portStatus>>
                    ELSE /\ conn'[c].pc \in {"finish", "cleanup"}
                         /\ conn'[c].reason = er
                         /\ conn'[c].cont = "completed"
                         /\ active_sessions[s] # NoSession =>
                               /\ active_sessions'[s].charging_status = "done"
                               /\ \E f \in PayFaultKinds :
                                     SettlePay(s, conn'[c].current_cost, f)
          /\ (/\ conn[c].pc \in {"tick", "finish"}
              /\ conn[c].connected
              /\ conn'[c].pc = "cleanup"
              /\ conn'[c].cont = "completed") =>
                 "charging_completed" \in conn'[c].events]_vars

\* C22 witness: a session whose target equals the battery capacity has been
\* settled with battery_full, the reason that comes first, and its client
\* has the charging_completed event
C22_Witness ==
    \E c \in LoopConns :
        /\ conn[c].target = BatteryCapacity
        /\ conn[c].current_kwh = BatteryCapacity
        /\ conn[c].reason = "battery_full"
        /\ "charging_completed" \in conn[c].events
        /\ settled[conn[c].sid] = <<"battery_full">>

\* C23: a tick adds the delta the meter returned when the fetch succeeded and
\* the nominal increment when it failed, and after a failed fetch the tick
\* ends the loop only on an end reason of the energy reached.
C23_MeterDeltaIsUsed ==
    [][\A c \in LoopConns :
          TickRuns(c) =>
              LET m == conn'[c].meter
                  added == conn'[c].current_kwh - conn[c].current_kwh
              IN  /\ added = IF m = MeterDown THEN NominalDelta ELSE m
                  /\ (m = MeterDown
                      /\ ExpectedEndReason(conn'[c].current_kwh,
                                           conn[c].target) = "none")
                     => conn'[c].pc = "loop"]_vars

\* session s was settled by the stop endpoint and is gone from the registry
SettledElsewhere(s) ==
    /\ s \in SessionIds
    /\ active_sessions[s] = NoSession
    /\ stop.pc = "idle"
    /\ settled[s] = <<"user_stopped">>

\* C24: once the stop endpoint has settled a session, the steps of the
\* session's telemetry loop and of its cleanup call no Settle, debit nothing
\* and send neither charging_interrupted nor charging_completed.
C24_LoopStopsSilently ==
    [][\A c \in LoopConns :
          (/\ SettledElsewhere(conn[c].sid)
           /\ conn[c].pc \in {"loop", "tick", "cleanup"}
           /\ conn'[c] # conn[c]) =>
              /\ balance' = balance
              /\ transactions' = transactions
              /\ conn'[c].reason = conn[c].reason
              /\ conn'[c].events \ conn[c].events \subseteq {"charging_update"}
              /\ conn'[c].pc \in {"cleanup", "end"} \/ ~conn'[c].connected
                    \/ conn[c].pc = "tick"]_vars

\* the cleanup of connection c runs in this step
CleanupRuns(c) == conn[c].pc = "cleanup" /\ conn'[c].pc # "cleanup"

\* the cleanup of connection c calls Settle with connection_lost in this step
CleanupCallsSettle(c) ==
    /\ CleanupRuns(c)
    /\ conn'[c].cont = "cleanup"
    /\ conn'[c].reason = "connection_lost"

\* C25: the cleanup calls Settle (once, with connection_lost) for a session
\* still in the registry exactly when the session's status is not done.
C25_CleanupSettlesUnlessDone ==
    [][\A c \in LoopConns :
          (CleanupRuns(c) /\ GetSessionStatus(conn[c].sid) # NoSession) =>
              (CleanupCallsSettle(c) <=>
                  GetSessionStatus(conn[c].sid).charging_status # "done")]_vars

\* the lifecycle statuses of the claim and the edges between them
LifecycleStatuses == {"initialized", "charging", "done", "interrupted"}
LifecycleEdges ==
    {<<"initialized", "charging">>, <<"charging", "done">>,
     <<"charging", "interrupted">>}

\* C26: the status of every registry entry is one of initialized, charging,
\* done, interrupted after every step, and a step that changes it follows
\* one of the edges initialized -> charging, charging -> done,
\* charging -> interrupted.
C26_LifecycleStatus ==
    [][\A s \in SessionIds :
          active_sessions'[s] # NoSession =>
              /\ active_sessions'[s].charging_status \in LifecycleStatuses
              /\ IF active_sessions[s] = NoSession THEN TRUE
                 ELSE \/ active_sessions'[s].charging_status =
                            active_sessions[s].charging_status
                      \/ <<active_sessions[s].charging_status,
                           active_sessions'[s].charging_status>>
                            \in LifecycleEdges]_vars

\* a station_failure row for station st is logged in this step
FailureLogged(st) ==
    /\ Len(audit'.logs) > Len(audit.logs)
    /\ audit'.logs[Len(audit.logs) + 1] =
          [action |-> "station_failure", station_id |-> st,
           created_on |-> audit.now]

\* C27: the step that logs a failure of a station also logs
\* station_critical_failure exactly when that failure is the third of the
\* station in the trailing 24 hours.
C27_CriticalOnThirdFailure ==
    [][\A st \in StationInputs :
          FailureLogged(st) =>
              ((/\ Len(audit'.logs) = Len(audit.logs) + 2
                /\ audit'.logs[Len(audit'.logs)].action =
                      "station_critical_failure")
               <=> Cardinality(RecentFailures(audit, st)) + 1 = 3)]_vars

C29_LedgerMatchesBalance ==
    LET RECURSIVE PaymentTotal(_, _)
        PaymentTotal(tx, u) ==
            IF tx = <<>> THEN 0
            ELSE (IF Head(tx).user_id = u THEN Head(tx).amount ELSE 0)
                 + PaymentTotal(Tail(tx), u)
    IN \A u \in Users :
          PaymentTotal(transactions, u) = balance[u] - InitialBalance(u)

\* C30: the balance of a user who has had a single session, one that passed
\* the balance check of start_charging, is never negative: what settlement
\* debits for the session stays within the estimate that was checked.
C30_SettlementKeepsBalanceNonNegative ==
    \A u \in Users :
        Cardinality({s \in 1..Len(rows) : rows[s].user_id = u}) <= 1
            => balance[u] >= 0

====
